---- MODULE Spec2Model ----
(***************************************************************************)
(* Storage adapters of auth-astro-sqlite: the in-memory adapter            *)
(* (src/memory-adapter.ts) and the SQLite adapter (src/sqlite-adapter.ts,  *)
(* with its fallback store memDB: the fake proxy the file binds it to, or  *)
(* MemoryAdapter(), the binding the file keeps commented out at line 9).   *)
(*                                                                         *)
(* JavaScript values are modelled as follows.                              *)
(*   null / undefined / "no row"   the empty sequence  Null                *)
(*   an object or row              the one-element sequence <<record>>     *)
(*   a user id ('userId_' + rnd,   a positive integer; 0 is a missing      *)
(*     or the integer user_id)       (falsy) id                            *)
(*   a string key                  a string; "" is a missing (falsy) one   *)
(*   an expiry                     [kind, v]: a Date of v milliseconds, a  *)
(*                                   number v, or undefined                *)
(***************************************************************************)
EXTENDS Integers, Sequences, FiniteSets, TLC

\* ------------------------------------------------------------------ bounds
MaxCalls == 5       \* calls of the in-memory adapter in one run
MaxSqlCalls == 4    \* calls of the SQLite adapter in one run
MaxInstances == 2   \* adapter objects MemoryAdapter() returns in one run
MaxInstanceCalls == 3   \* calls made in a run with more than one adapter object

\* ------------------------------------------------------------------ values
Null == <<>>
Some(x) == <<x>>

DateV(ms) == [kind |-> "date", v |-> ms]
NumV(n) == [kind |-> "number", v |-> n]
Undefined == [kind |-> "undefined", v |-> 0]

Names == {"A", "B"}
Emails == {"a@x.com", "b@x.com"}
Providers == {"google", "github"}
ProviderAccountIds == {"pa1", "pa2"}
SessionTokens == {"s1", "s2"}
Identifiers == {"a@x.com", "b@x.com"}
Tokens == {"t1", "t2"}
\* Date instants in milliseconds: one off the whole second, one on it
Dates == {DateV(1500), DateV(3000)}

UserIds == 1..2
ProviderPairs == [provider : Providers, providerAccountId : ProviderAccountIds]
TokenPairs == [identifier : Identifiers, token : Tokens]

VARIABLES
    users, accounts, sessions, verificationTokens,   \* memory-adapter.ts:7-10
    nextUserId, nextAccountId,                       \* ids getId() has handed out
    instances, self,                                 \* adapter objects MemoryAdapter() has returned; the one last called
    db,                                              \* the SQLite database: its four tables
    fallback,                                        \* what memDB is bound to (sqlite-adapter.ts:9-18)
    op, rv, err,                                     \* the last call, what it returned or threw
    calls                                            \* calls made so far

vars ==
    <<users, accounts, sessions, verificationTokens, nextUserId, nextAccountId, instances, self,
      db, fallback, op, rv, err, calls>>

\* ------------------------------------------------------- Array.prototype
\* Array.prototype.findIndex: the first index (from 1) whose element is in S,
\* and -1 when there is none.
FindIndex(arr, S) ==
    IF \E i \in 1..Len(arr) : arr[i] \in S
    THEN CHOOSE i \in 1..Len(arr) : arr[i] \in S /\ \A j \in 1..(i - 1) : arr[j] \notin S
    ELSE -1

\* Array.prototype.find: the first element in S, or undefined.
Find(arr, S) ==
    IF FindIndex(arr, S) = -1 THEN Null ELSE Some(arr[FindIndex(arr, S)])

\* arr.splice(start, 1) with start as findIndex gives it: a 1-based index, or
\* -1, which JavaScript counts from the end (the last element) and clamps
\* to the start of an empty array.
Splice1(arr, start) ==
    LET at == IF start = -1 THEN Len(arr) ELSE start
    IN  IF at < 1 \/ at > Len(arr) THEN arr
        ELSE SubSeq(arr, 1, at - 1) \o SubSeq(arr, at + 1, Len(arr))

\* Object.assign(target, source): the source's own fields overwrite or extend.
Assign(target, source) ==
    [f \in (DOMAIN target) \cup (DOMAIN source) |->
        IF f \in DOMAIN source THEN source[f] ELSE target[f]]

\* arr with its i-th element replaced (a mutation of the stored object)
ReplaceAt(arr, i, x) == [arr EXCEPT ![i] = x]

\* a call as the caller sees it: the adapter it went to, the method, the argument
Call(adapter, name, arg) == [adapter |-> adapter, name |-> name, arg |-> arg]

\* one more call has been made; memDB is a const of the module
Called ==
    /\ calls < MaxCalls /\ calls' = calls + 1 /\ fallback' = fallback
    /\ instances' = instances /\ self' \in 1..instances
SqlCalled ==
    /\ calls < MaxSqlCalls /\ calls' = calls + 1 /\ fallback' = fallback
    /\ UNCHANGED <<instances, self>>

Range(arr) == {arr[i] : i \in 1..Len(arr)}

\* --------------------------------------------------------------- inputs
NullV == [kind |-> "null", v |-> 0]

\* MemoryAdapter_createUser(data): an AdapterUser without id
UserData == [name : Names, email : Emails, emailVerified : {NullV}, image : {"a.png"}]

\* MemoryAdapter_updateUser(user): Partial<AdapterUser> & {id}
UserPatches ==
    [id : UserIds, name : Names] \cup [id : UserIds, email : Emails]
        \cup [id : UserIds, emailVerified : {DateV(1500)}]

\* user ids the adapter has returned so far (a caller holds no other)
IssuedUserIds == 1..nextUserId

\* MemoryAdapter_createSession(data): an AdapterSession
SessionData == [sessionToken : SessionTokens, userId : IssuedUserIds, expires : {DateV(1500)}]

\* MemoryAdapter_updateSession(data): Partial<AdapterSession> & {sessionToken}
SessionPatches == [sessionToken : SessionTokens, expires : Dates]

\* MemoryAdapter_linkAccount(data): an AdapterAccount (the token material is carried along
\* untouched and is left out)
AccountData ==
    [userId : IssuedUserIds, provider : Providers,
     providerAccountId : ProviderAccountIds, type : {"oauth"}]

\* MemoryAdapter_createVerificationToken(data): a VerificationToken
TokenData == [identifier : Identifiers, token : Tokens, expires : {DateV(3000)}]

\* ------------------------------------------------------- MemoryAdapter
UsersById(id) == {u \in Range(users) : u.id = id}
UsersByEmail(email) == {u \in Range(users) : u.email = email}
AccountsByKey(pa) == {a \in Range(accounts) : a.providerAccountId = pa.providerAccountId}
SessionsByToken(t) == {s \in Range(sessions) : s.sessionToken = t}
TokensByPair(p) ==
    {t \in Range(verificationTokens) : t.identifier = p.identifier /\ t.token = p.token}

\* users.find(u => u.id === x?.userId): x is Null (undefined) or a record
UserOf(x) == IF x = Null THEN Null ELSE Find(users, UsersById(x[1].userId))

MemGetUser(id) == Find(users, UsersById(id))
MemGetUserByEmail(email) == Find(users, UsersByEmail(email))
MemGetUserByAccount(pa) == UserOf(Find(accounts, AccountsByKey(pa)))
MemGetSessionAndUser(t) ==
    LET session == Find(sessions, SessionsByToken(t))
        user == UserOf(session)
    IN  IF session # Null /\ user # Null
        THEN Some([session |-> session[1], user |-> user[1]])
        ELSE Null

MemoryAdapter_createUser(data) ==
    /\ Called
    /\ LET u == Assign(data, [id |-> nextUserId + 1])
       IN  /\ users' = Append(users, u)
           /\ rv' = Some(u)
    /\ nextUserId' = nextUserId + 1
    /\ err' = "none" /\ op' = Call("MemoryAdapter", "createUser", data)
    /\ UNCHANGED <<accounts, sessions, verificationTokens, nextAccountId, db>>

MemoryAdapter_getUser(id) ==
    /\ Called
    /\ rv' = MemGetUser(id)
    /\ err' = "none" /\ op' = Call("MemoryAdapter", "getUser", id)
    /\ UNCHANGED <<users, accounts, sessions, verificationTokens, nextUserId, nextAccountId, db>>

MemoryAdapter_getUserByEmail(email) ==
    /\ Called
    /\ rv' = MemGetUserByEmail(email)
    /\ err' = "none" /\ op' = Call("MemoryAdapter", "getUserByEmail", email)
    /\ UNCHANGED <<users, accounts, sessions, verificationTokens, nextUserId, nextAccountId, db>>

MemoryAdapter_getUserByAccount(pa) ==
    /\ Called
    /\ rv' = MemGetUserByAccount(pa)
    /\ err' = "none" /\ op' = Call("MemoryAdapter", "getUserByAccount", pa)
    /\ UNCHANGED <<users, accounts, sessions, verificationTokens, nextUserId, nextAccountId, db>>

\* A variant of updateUser that stores the input when no user has its id.
MemoryAdapter_updateUser_upsert(user) ==
    /\ Called
    /\ LET i == FindIndex(users, UsersById(user.id))
       IN  IF i = -1
           THEN /\ users' = Append(users, Assign(user, user))
                /\ rv' = Some(Assign(user, user))
           ELSE /\ users' = ReplaceAt(users, i, Assign(users[i], user))
                /\ rv' = Some(Assign(users[i], user))
    /\ err' = "none" /\ op' = Call("MemoryAdapter", "updateUser", user)
    /\ UNCHANGED <<accounts, sessions, verificationTokens, nextUserId, nextAccountId, db>>

MemoryAdapter_updateUser(user) ==
    /\ Called
    /\ LET i == FindIndex(users, UsersById(user.id))
       IN  IF i = -1
           THEN /\ users' = users
                /\ rv' = Some(Assign(user, user))
           ELSE /\ users' = ReplaceAt(users, i, Assign(users[i], user))
                /\ rv' = Some(Assign(users[i], user))
    /\ err' = "none" /\ op' = Call("MemoryAdapter", "updateUser", user)
    /\ UNCHANGED <<accounts, sessions, verificationTokens, nextUserId, nextAccountId, db>>

MemoryAdapter_deleteUser(id) ==
    /\ Called
    /\ rv' = Find(users, UsersById(id))
    /\ users' = Splice1(users, FindIndex(users, UsersById(id)))
    /\ err' = "none" /\ op' = Call("MemoryAdapter", "deleteUser", id)
    /\ UNCHANGED <<accounts, sessions, verificationTokens, nextUserId, nextAccountId, db>>

MemoryAdapter_createSession(data) ==
    /\ Called
    /\ sessions' = Append(sessions, data)
    /\ rv' = Some(data)
    /\ err' = "none" /\ op' = Call("MemoryAdapter", "createSession", data)
    /\ UNCHANGED <<users, accounts, verificationTokens, nextUserId, nextAccountId, db>>

MemoryAdapter_updateSession(data) ==
    /\ Called
    /\ LET i == FindIndex(sessions, SessionsByToken(data.sessionToken))
       IN  IF i = -1
           THEN /\ sessions' = sessions
                /\ rv' = Some(Assign(data, data))
           ELSE /\ sessions' = ReplaceAt(sessions, i, Assign(sessions[i], data))
                /\ rv' = Some(Assign(sessions[i], data))
    /\ err' = "none" /\ op' = Call("MemoryAdapter", "updateSession", data)
    /\ UNCHANGED <<users, accounts, verificationTokens, nextUserId, nextAccountId, db>>

MemoryAdapter_deleteSession(t) ==
    /\ Called
    /\ rv' = Find(sessions, SessionsByToken(t))
    /\ sessions' = Splice1(sessions, FindIndex(sessions, SessionsByToken(t)))
    /\ err' = "none" /\ op' = Call("MemoryAdapter", "deleteSession", t)
    /\ UNCHANGED <<users, accounts, verificationTokens, nextUserId, nextAccountId, db>>

MemoryAdapter_linkAccount(data) ==
    /\ Called
    /\ LET a == Assign(data, [id |-> nextAccountId + 1])
       IN  /\ accounts' = Append(accounts, a)
           /\ rv' = Some(a)
    /\ nextAccountId' = nextAccountId + 1
    /\ err' = "none" /\ op' = Call("MemoryAdapter", "linkAccount", data)
    /\ UNCHANGED <<users, sessions, verificationTokens, nextUserId, db>>

MemoryAdapter_unlinkAccount(pa) ==
    /\ Called
    /\ rv' = Find(accounts, AccountsByKey(pa))
    /\ accounts' = Splice1(accounts, FindIndex(accounts, AccountsByKey(pa)))
    /\ err' = "none" /\ op' = Call("MemoryAdapter", "unlinkAccount", pa)
    /\ UNCHANGED <<users, sessions, verificationTokens, nextUserId, nextAccountId, db>>

MemoryAdapter_getSessionAndUser(t) ==
    /\ Called
    /\ rv' = MemGetSessionAndUser(t)
    /\ err' = "none" /\ op' = Call("MemoryAdapter", "getSessionAndUser", t)
    /\ UNCHANGED <<users, accounts, sessions, verificationTokens, nextUserId, nextAccountId, db>>

MemoryAdapter_createVerificationToken(data) ==
    /\ Called
    /\ verificationTokens' = Append(verificationTokens, data)
    /\ rv' = Some(data)
    /\ err' = "none" /\ op' = Call("MemoryAdapter", "createVerificationToken", data)
    /\ UNCHANGED <<users, accounts, sessions, nextUserId, nextAccountId, db>>

MemoryAdapter_useVerificationToken(p) ==
    /\ Called
    /\ rv' = Find(verificationTokens, TokensByPair(p))
    /\ verificationTokens' = Splice1(verificationTokens, FindIndex(verificationTokens, TokensByPair(p)))
    /\ err' = "none" /\ op' = Call("MemoryAdapter", "useVerificationToken", p)
    /\ UNCHANGED <<users, accounts, sessions, nextUserId, nextAccountId, db>>


\* ------------------------------------------------------- SQLiteAdapter
\* The schema lives in scripts/migrations.ts, which is not part of the sources.
\* Rows are kept in insertion order; a missing (undefined) string parameter is
\* bound as NULL and written "" here; the *_seq fields are the row ids handed out.
EmptyDb ==
    [users |-> <<>>, login_provider_accounts |-> <<>>, sessions |-> <<>>,
     verification_tokens |-> <<>>, user_seq |-> 0, login_seq |-> 0, session_seq |-> 0]

\* The keys of the data model: a row that repeats a key is refused by the database.
UserKeyFree(email) == \A r \in Range(db.users) : r.email # email
UserKeyFreeFor(id, email) == \A r \in Range(db.users) : r.user_id = id \/ r.email # email
AccountKeyFree(provider, paid) ==
    \A r \in Range(db.login_provider_accounts) :
        ~(r.provider = provider /\ r.provider_user_id = paid)
SessionKeyFree(token) == \A r \in Range(db.sessions) : r.session_token # token
TokenKeyFree(identifier, token) ==
    \A r \in Range(db.verification_tokens) :
        ~(r.verification_token_id = identifier /\ r.token = token)

\* MemoryAdapter()[name](arg) as the SQLite adapter calls it on memDB: what the
\* call leaves in the module's collections (memory-adapter.ts:14-93)
MemoryAdapterStore(name, arg) ==
    /\ users' =
        CASE name = "createUser" -> Append(users, Assign(arg, [id |-> nextUserId + 1]))
          [] name = "updateUser" ->
                LET i == FindIndex(users, UsersById(arg.id))
                IN  IF i = -1 THEN users ELSE ReplaceAt(users, i, Assign(users[i], arg))
          [] name = "deleteUser" -> Splice1(users, FindIndex(users, UsersById(arg)))
          [] OTHER -> users
    /\ nextUserId' = IF name = "createUser" THEN nextUserId + 1 ELSE nextUserId
    /\ sessions' =
        CASE name = "createSession" -> Append(sessions, arg)
          [] name = "updateSession" ->
                LET i == FindIndex(sessions, SessionsByToken(arg.sessionToken))
                IN  IF i = -1 THEN sessions ELSE ReplaceAt(sessions, i, Assign(sessions[i], arg))
          [] name = "deleteSession" -> Splice1(sessions, FindIndex(sessions, SessionsByToken(arg)))
          [] OTHER -> sessions
    /\ accounts' =
        CASE name = "linkAccount" -> Append(accounts, Assign(arg, [id |-> nextAccountId + 1]))
          [] name = "unlinkAccount" -> Splice1(accounts, FindIndex(accounts, AccountsByKey(arg)))
          [] OTHER -> accounts
    /\ nextAccountId' = IF name = "linkAccount" THEN nextAccountId + 1 ELSE nextAccountId
    /\ verificationTokens' =
        CASE name = "createVerificationToken" -> Append(verificationTokens, arg)
          [] name = "useVerificationToken" ->
                Splice1(verificationTokens, FindIndex(verificationTokens, TokensByPair(arg)))
          [] OTHER -> verificationTokens

\* ... and what the call returns
MemoryAdapterResult(name, arg) ==
    CASE name = "createUser" -> Some(Assign(arg, [id |-> nextUserId + 1]))
      [] name = "getUser" -> MemGetUser(arg)
      [] name = "getUserByEmail" -> MemGetUserByEmail(arg)
      [] name = "getUserByAccount" -> MemGetUserByAccount(arg)
      [] name = "updateUser" ->
            LET i == FindIndex(users, UsersById(arg.id))
            IN  IF i = -1 THEN Some(arg) ELSE Some(Assign(users[i], arg))
      [] name = "deleteUser" -> Find(users, UsersById(arg))
      [] name = "createSession" -> Some(arg)
      [] name = "updateSession" ->
            LET i == FindIndex(sessions, SessionsByToken(arg.sessionToken))
            IN  IF i = -1 THEN Some(arg) ELSE Some(Assign(sessions[i], arg))
      [] name = "deleteSession" -> Find(sessions, SessionsByToken(arg))
      [] name = "linkAccount" -> Some(Assign(arg, [id |-> nextAccountId + 1]))
      [] name = "unlinkAccount" -> Find(accounts, AccountsByKey(arg))
      [] name = "getSessionAndUser" -> MemGetSessionAndUser(arg)
      [] name = "createVerificationToken" -> Some(arg)
      [] name = "useVerificationToken" -> Find(verificationTokens, TokensByPair(arg))

\* ... or that it throws: createUser and linkAccount assign an id to their
\* argument (u.id = ..., a.id = ...), a TypeError when the object is frozen.
\* A frozen object is written as a record with a field "frozen".
MemoryAdapterThrows(name, arg) ==
    name \in {"createUser", "linkAccount"} /\ "frozen" \in DOMAIN arg

\* memDB: the fake proxy adapter, whose every method returns null and keeps
\* nothing, or MemoryAdapter().
\* memDB[name](arg) throws
memDBThrows(name, arg) == fallback = "MemoryAdapter" /\ MemoryAdapterThrows(name, arg)

\* memDB[name](arg): what the call does to the fallback store
memDB(name, arg) ==
    IF fallback = "MemoryAdapter" /\ ~MemoryAdapterThrows(name, arg)
    THEN MemoryAdapterStore(name, arg)
    ELSE UNCHANGED <<users, accounts, sessions, verificationTokens, nextUserId, nextAccountId>>

\* const memRv = memDB[name](arg)
memRv(name, arg) ==
    IF fallback = "MemoryAdapter" THEN MemoryAdapterResult(name, arg) ELSE Null

\* a ?? b
OrElse(a, b) == IF a # Null THEN a ELSE b

\* better-sqlite3 binds numbers, strings and null (undefined as NULL); any other
\* object, a Date among them, makes stmt.get throw a TypeError.
Bindable(v) == v.kind # "date"

\* datetime(?, 'unixepoch') of a bound expiry: the instant in epoch seconds, or NULL
Datetime(v) == IF v.kind = "number" THEN NumV(v.v) ELSE NullV

\* Math.round(ms / 1000) for ms >= 0
RoundSeconds(ms) == (ms + 500) \div 1000

\* new Date(x) of the unixepoch(expires_at) column: x is taken as milliseconds
NewDate(x) == IF x.kind = "number" THEN DateV(x.v) ELSE DateV(0)

\* SELECT user_id AS id, name, email, email_verified_at AS emailVerified, avatar AS image
AsUser(r) ==
    [id |-> r.user_id, name |-> r.name, email |-> r.email,
     emailVerified |-> r.email_verified_at, image |-> r.avatar]

\* SELECT session_id AS id, user_id AS userId, unixepoch(expires_at) AS expires,
\*        session_token AS sessionToken
AsSession(r) ==
    [id |-> r.session_id, userId |-> r.user_id, expires |-> r.expires_at,
     sessionToken |-> r.session_token]

\* SELECT login_id AS id, user_id AS userId, provider, type, provider_user_id AS providerAccountId
AsAccount(r) ==
    [id |-> r.login_id, userId |-> r.user_id, provider |-> r.provider, type |-> r.type,
     providerAccountId |-> r.provider_user_id]

\* RETURNING verification_token_id AS identifier, unixepoch(expires_at) AS expires, token
AsToken(r) ==
    [identifier |-> r.verification_token_id, expires |-> r.expires_at, token |-> r.token]

\* stmt.get: the first row of the table in S, mapped by the column list, or undefined
Get(table, S) == Find(table, S)

\* the rows of a table that are not in S, in order (DELETE ... WHERE)
Without(table, S) == SelectSeq(table, LAMBDA r : r \notin S)

RowsUserId(id) == {r \in Range(db.users) : r.user_id = id}
RowsEmail(email) == {r \in Range(db.users) : r.email = email}
RowsSessionToken(t) == {r \in Range(db.sessions) : t # "" /\ r.session_token = t}
RowsAccount(pa) ==
    {r \in Range(db.login_provider_accounts) :
        r.provider_user_id = pa.providerAccountId /\ r.provider = pa.provider}
RowsToken(p) ==
    {r \in Range(db.verification_tokens) :
        /\ p.identifier # "" /\ r.verification_token_id = p.identifier
        /\ p.token # "" /\ r.token = p.token}

\* what a call does to the outside: returns, or throws and returns nothing
Returns(name, arg, value) == op' = Call("SQLiteAdapter", name, arg) /\ rv' = value /\ err' = "none"
Throws(name, arg, error) == op' = Call("SQLiteAdapter", name, arg) /\ rv' = Null /\ err' = error


\* ----------------------------------------------- SQLiteAdapter: inputs
SqlIssuedUserIds == 1..db.user_seq
\* the ids MemoryAdapter() has written into the user objects it was given
MirroredUserIds == {u.id : u \in Range(users)}
\* emailVerified: null, or once a Date; once a frozen object
SqlUserData ==
    UserData \cup {[name |-> "A", email |-> "a@x.com", emailVerified |-> DateV(1500),
                    image |-> "a.png"],
                   [name |-> "B", email |-> "b@x.com", emailVerified |-> NullV,
                    image |-> "a.png", frozen |-> TRUE]}
\* id 0: a user object without id
SqlUserPatches == UserPatches \cup {[id |-> 0, name |-> "A"]}
\* "" and 0: a session without sessionToken, without userId
SqlSessionData ==
    [sessionToken : SessionTokens, userId : SqlIssuedUserIds \cup MirroredUserIds,
     expires : {DateV(1500), NumV(2)}]
        \cup [sessionToken : {"s1"}, userId : SqlIssuedUserIds, expires : {Undefined}]
        \cup [sessionToken : {""}, userId : SqlIssuedUserIds, expires : {DateV(1500)}]
        \cup [sessionToken : {"s1"}, userId : {0}, expires : {DateV(1500)}]
SqlSessionPatches ==
    [sessionToken : SessionTokens \cup {""}, expires : {DateV(3000), NumV(3)}]
\* once a frozen object
SqlAccountData ==
    [userId : SqlIssuedUserIds, provider : Providers,
     providerAccountId : ProviderAccountIds, type : {"oauth"}]
        \cup [userId : SqlIssuedUserIds, provider : {"google"},
              providerAccountId : {"pa1"}, type : {"oauth"}, frozen : {TRUE}]
\* "": a verification token without token
SqlTokenData ==
    [identifier : Identifiers, token : Tokens, expires : {NumV(3)}]
        \cup [identifier : {"a@x.com"}, token : {"t1"}, expires : {DateV(3000), Undefined}]
        \cup [identifier : {"a@x.com"}, token : {""}, expires : {NumV(3)}]

\* ---------------------------------------------- SQLiteAdapter: methods
SQLiteAdapter_createUser(user) ==
    /\ SqlCalled /\ memDB("createUser", user)
    /\ IF memDBThrows("createUser", user) \/ ~Bindable(user.emailVerified)
       THEN Throws("createUser", user, "TypeError") /\ db' = db
       ELSE IF ~UserKeyFree(user.email)
       THEN Throws("createUser", user, "SqliteError") /\ db' = db
       ELSE LET row == [user_id |-> db.user_seq + 1, name |-> user.name, email |-> user.email,
                        email_verified_at |-> user.emailVerified, avatar |-> user.image]
            IN  /\ db' = [db EXCEPT !.users = Append(@, row), !.user_seq = @ + 1]
                /\ Returns("createUser", user, Some(AsUser(row)))

SqlGetUser(id) ==
    LET r == Get(db.users, RowsUserId(id)) IN IF r = Null THEN Null ELSE Some(AsUser(r[1]))

SqlGetUserByEmail(email) ==
    LET r == Get(db.users, RowsEmail(email)) IN IF r = Null THEN Null ELSE Some(AsUser(r[1]))

\* FROM users u, login_provider_accounts lpa WHERE u.user_id = lpa.user_id AND ...
SqlGetUserByAccount(pa) ==
    LET joined == {u \in Range(db.users) : \E a \in RowsAccount(pa) : u.user_id = a.user_id}
        r == Get(db.users, joined)
    IN  IF r = Null THEN Null ELSE Some(AsUser(r[1]))

SqlGetSession(t) ==
    LET r == Get(db.sessions, RowsSessionToken(t))
    IN  IF r = Null THEN Null ELSE Some(AsSession(r[1]))

SqlGetSessionAndUser(t) ==
    LET session == SqlGetSession(t)
        user == IF session = Null THEN Null ELSE SqlGetUser(session[1].userId)
    IN  IF t = "" \/ session = Null \/ user = Null
        THEN Null
        ELSE Some([session |-> session[1], user |-> user[1]])

SQLiteAdapter_getUser(id) ==
    /\ SqlCalled /\ memDB("getUser", id)
    /\ Returns("getUser", id, OrElse(SqlGetUser(id), memRv("getUser", id)))
    /\ db' = db

SQLiteAdapter_getUserByEmail(email) ==
    /\ SqlCalled /\ memDB("getUserByEmail", email)
    /\ Returns("getUserByEmail", email,
               OrElse(SqlGetUserByEmail(email), memRv("getUserByEmail", email)))
    /\ db' = db

SQLiteAdapter_getUserByAccount(pa) ==
    /\ SqlCalled /\ memDB("getUserByAccount", pa)
    /\ Returns("getUserByAccount", pa,
               OrElse(SqlGetUserByAccount(pa), memRv("getUserByAccount", pa)))
    /\ db' = db

SQLiteAdapter_updateUser(user) ==
    /\ SqlCalled /\ memDB("updateUser", user)
    /\ IF user.id = 0
       THEN Throws("updateUser", user, "Error") /\ db' = db
       ELSE LET i == FindIndex(db.users, RowsUserId(user.id))
                newUser == IF i = -1 THEN user ELSE Assign(AsUser(db.users[i]), user)
            IN  IF "emailVerified" \in DOMAIN newUser /\ ~Bindable(newUser.emailVerified)
                THEN Throws("updateUser", user, "TypeError") /\ db' = db
                ELSE IF i = -1
                THEN Returns("updateUser", user, memRv("updateUser", user)) /\ db' = db
                ELSE LET row == [user_id |-> newUser.id, name |-> newUser.name,
                                 email |-> newUser.email,
                                 email_verified_at |-> newUser.emailVerified,
                                 avatar |-> newUser.image]
                     IN  IF ~UserKeyFreeFor(newUser.id, newUser.email)
                         THEN Throws("updateUser", user, "SqliteError") /\ db' = db
                         ELSE /\ db' = [db EXCEPT !.users = ReplaceAt(@, i, row)]
                              /\ Returns("updateUser", user, Some(AsUser(row)))

\* What the foreign keys of the schema do to the other tables when the rows of
\* user userId leave users: nothing. The data model names no ON DELETE action
\* and no boundary beyond the single statement.
OnDeleteUser(d, userId) == d

\* the three DELETE statements of deleteUser, in the order the method runs them
DeleteUserStatement(k, d, userId) ==
    CASE k = 1 -> OnDeleteUser([d EXCEPT !.users = Without(@, {r \in Range(@) : r.user_id = userId})],
                               userId)
      [] k = 2 -> [d EXCEPT !.login_provider_accounts =
                                Without(@, {r \in Range(@) : r.user_id = userId})]
      [] k = 3 -> [d EXCEPT !.sessions = Without(@, {r \in Range(@) : r.user_id = userId})]

\* the statements in the opposite order
SQLiteAdapter_deleteUser_sessionsFirst(userId, done) ==
    /\ SqlCalled /\ memDB("deleteUser", userId)
    /\ LET d1 == IF done >= 1 THEN DeleteUserStatement(3, db, userId) ELSE db
           d2 == IF done >= 2 THEN DeleteUserStatement(2, d1, userId) ELSE d1
           d3 == IF done >= 3 THEN DeleteUserStatement(1, d2, userId) ELSE d2
       IN  db' = d3
    /\ IF done = 3
       THEN Returns("deleteUser", userId, Null)
       ELSE Throws("deleteUser", userId, "SqliteError")

\* done: the DELETE statements that ran before a storage failure stopped the
\* method (3: all of them ran and the method completed)
SQLiteAdapter_deleteUser(userId, done) ==
    /\ SqlCalled /\ memDB("deleteUser", userId)
    /\ LET d1 == IF done >= 1 THEN DeleteUserStatement(1, db, userId) ELSE db
           d2 == IF done >= 2 THEN DeleteUserStatement(2, d1, userId) ELSE d1
           d3 == IF done >= 3 THEN DeleteUserStatement(3, d2, userId) ELSE d2
       IN  db' = d3
    /\ IF done = 3
       THEN Returns("deleteUser", userId, Null)
       ELSE Throws("deleteUser", userId, "SqliteError")

\* session.expires as epoch seconds: <<n>>, or <<>> when it is neither a Date nor a number
ExpiresAt(expires) ==
    IF expires.kind = "date" THEN Some(RoundSeconds(expires.v))
    ELSE IF expires.kind = "number" THEN Some(expires.v)
    ELSE Null

\* the check with the session token left out of it
MissingSessionKey_userIdOnly(session) == session.userId = 0

\* !session.userId || !session.sessionToken
MissingSessionKey(session) == session.userId = 0 \/ session.sessionToken = ""

SQLiteAdapter_createSession(session) ==
    /\ SqlCalled /\ memDB("createSession", session)
    /\ IF ExpiresAt(session.expires) = Null \/ MissingSessionKey(session)
       THEN Throws("createSession", session, "Error") /\ db' = db
       ELSE IF ~SessionKeyFree(session.sessionToken)
       THEN Throws("createSession", session, "SqliteError") /\ db' = db
       ELSE LET row == [session_id |-> db.session_seq + 1, user_id |-> session.userId,
                        expires_at |-> Datetime(NumV(ExpiresAt(session.expires)[1])),
                        session_token |-> session.sessionToken]
                ret == [sessionToken |-> row.session_token, userId |-> row.user_id,
                        expires |-> NewDate(row.expires_at)]
            IN  /\ db' = [db EXCEPT !.sessions = Append(@, row), !.session_seq = @ + 1]
                /\ Returns("createSession", session, Some(ret))

SQLiteAdapter_updateSession(session) ==
    /\ SqlCalled /\ memDB("updateSession", session)
    /\ IF session.sessionToken = ""
       THEN Returns("updateSession", session, Null) /\ db' = db
       ELSE LET i == FindIndex(db.sessions, RowsSessionToken(session.sessionToken))
                newSession == IF i = -1 THEN session
                              ELSE Assign(AsSession(db.sessions[i]), session)
            IN  IF ~Bindable(newSession.expires)
                THEN Throws("updateSession", session, "TypeError") /\ db' = db
                ELSE IF i = -1
                THEN Throws("updateSession", session, "TypeError") /\ db' = db
                ELSE LET row == [db.sessions[i] EXCEPT
                                    !.user_id = newSession.userId,
                                    !.expires_at = Datetime(newSession.expires)]
                     IN  /\ db' = [db EXCEPT !.sessions = ReplaceAt(@, i, row)]
                         /\ Returns("updateSession", session,
                                    Some([AsSession(row) EXCEPT !.expires = NewDate(@)]))

SQLiteAdapter_deleteSession(t) ==
    /\ SqlCalled /\ memDB("deleteSession", t)
    /\ db' = [db EXCEPT !.sessions = Without(@, RowsSessionToken(t))]
    /\ Returns("deleteSession", t, Null)

SQLiteAdapter_linkAccount(account) ==
    /\ SqlCalled /\ memDB("linkAccount", account)
    /\ IF memDBThrows("linkAccount", account)
       THEN Throws("linkAccount", account, "TypeError") /\ db' = db
       ELSE IF ~AccountKeyFree(account.provider, account.providerAccountId)
       THEN Throws("linkAccount", account, "SqliteError") /\ db' = db
       ELSE LET row == [login_id |-> db.login_seq + 1, user_id |-> account.userId,
                        provider |-> account.provider, type |-> account.type,
                        provider_user_id |-> account.providerAccountId]
            IN  /\ db' = [db EXCEPT !.login_provider_accounts = Append(@, row),
                                    !.login_seq = @ + 1]
                /\ Returns("linkAccount", account, Null)

SQLiteAdapter_unlinkAccount(pa) ==
    /\ SqlCalled /\ memDB("unlinkAccount", pa)
    /\ LET r == Get(db.login_provider_accounts, RowsAccount(pa))
       IN  Returns("unlinkAccount", pa,
                   IF r = Null THEN memRv("unlinkAccount", pa) ELSE Some(AsAccount(r[1])))
    /\ db' = [db EXCEPT !.login_provider_accounts = Without(@, RowsAccount(pa))]

SQLiteAdapter_getSessionAndUser(t) ==
    /\ SqlCalled /\ memDB("getSessionAndUser", t)
    /\ Returns("getSessionAndUser", t, SqlGetSessionAndUser(t))
    /\ db' = db

SQLiteAdapter_createVerificationToken(token) ==
    /\ SqlCalled /\ memDB("createVerificationToken", token)
    /\ IF ~Bindable(token.expires)
       THEN Throws("createVerificationToken", token, "TypeError") /\ db' = db
       ELSE IF token.token # "" /\ ~TokenKeyFree(token.identifier, token.token)
       THEN Throws("createVerificationToken", token, "SqliteError") /\ db' = db
       ELSE LET row == [verification_token_id |-> token.identifier,
                        expires_at |-> Datetime(token.expires), token |-> token.token]
            IN  /\ db' = [db EXCEPT !.verification_tokens = Append(@, row)]
                /\ Returns("createVerificationToken", token, Some(AsToken(row)))

SQLiteAdapter_useVerificationToken(p) ==
    /\ SqlCalled /\ memDB("useVerificationToken", p)
    /\ LET r == Get(db.verification_tokens, RowsToken(p))
       IN  Returns("useVerificationToken", p,
                   IF r = Null THEN memRv("useVerificationToken", p) ELSE Some(AsToken(r[1])))
    /\ db' = [db EXCEPT !.verification_tokens = Without(@, RowsToken(p))]

Init ==
    /\ users = <<>>
    /\ accounts = <<>>
    /\ sessions = <<>>
    /\ verificationTokens = <<>>
    /\ nextUserId = 0
    /\ nextAccountId = 0
    /\ instances = 1
    /\ self = 1
    /\ op = Call("none", "init", Null)
    /\ rv = Null
    /\ err = "none"
    /\ db = EmptyDb
    /\ fallback = "proxy"
    /\ calls = 0

Next ==
    \/ \E data \in UserData : MemoryAdapter_createUser(data)
    \/ \E id \in UserIds : MemoryAdapter_getUser(id)
    \/ \E email \in Emails : MemoryAdapter_getUserByEmail(email)
    \/ \E pa \in ProviderPairs : MemoryAdapter_getUserByAccount(pa)
    \/ \E user \in UserPatches : MemoryAdapter_updateUser(user)
    \/ \E id \in UserIds : MemoryAdapter_deleteUser(id)
    \/ \E data \in SessionData : MemoryAdapter_createSession(data)
    \/ \E data \in SessionPatches : MemoryAdapter_updateSession(data)
    \/ \E t \in SessionTokens : MemoryAdapter_deleteSession(t)
    \/ \E data \in AccountData : MemoryAdapter_linkAccount(data)
    \/ \E pa \in ProviderPairs : MemoryAdapter_unlinkAccount(pa)
    \/ \E t \in SessionTokens : MemoryAdapter_getSessionAndUser(t)
    \/ \E data \in TokenData : MemoryAdapter_createVerificationToken(data)
    \/ \E p \in TokenPairs : MemoryAdapter_useVerificationToken(p)

Spec == Init /\ [][Next]_vars

\* The in-memory adapter's operations on users and sessions alone; the other
\* six operations write neither collection (memory-adapter.ts:25-34, 64-76, 83-93).
NextUsersSessions ==
    \/ \E data \in UserData : MemoryAdapter_createUser(data)
    \/ \E id \in UserIds : MemoryAdapter_getUser(id)
    \/ \E user \in UserPatches : MemoryAdapter_updateUser(user)
    \/ \E id \in UserIds : MemoryAdapter_deleteUser(id)
    \/ \E data \in SessionData : MemoryAdapter_createSession(data)
    \/ \E data \in SessionPatches : MemoryAdapter_updateSession(data)
    \/ \E t \in SessionTokens : MemoryAdapter_deleteSession(t)
    \/ \E t \in SessionTokens : MemoryAdapter_getSessionAndUser(t)

SpecUsersSessions == Init /\ [][NextUsersSessions]_vars

\* A variant of MemoryAdapter() that starts every adapter object on empty
\* collections.
MemoryAdapter_new_fresh ==
    /\ instances < MaxInstances
    /\ instances' = instances + 1
    /\ op' = Call("MemoryAdapter", "MemoryAdapter", Null)
    /\ rv' = Some([instance |-> instances + 1])
    /\ err' = "none"
    /\ users' = <<>> /\ accounts' = <<>> /\ sessions' = <<>> /\ verificationTokens' = <<>>
    /\ UNCHANGED <<nextUserId, nextAccountId, self, db, fallback, calls>>

\* MemoryAdapter(): returns a new object whose fourteen methods close over the
\* module's four arrays; the call itself touches none of them.
MemoryAdapter_new ==
    /\ instances < MaxInstances
    /\ instances' = instances + 1
    /\ op' = Call("MemoryAdapter", "MemoryAdapter", Null)
    /\ rv' = Some([instance |-> instances + 1])
    /\ err' = "none"
    /\ UNCHANGED <<users, accounts, sessions, verificationTokens, nextUserId, nextAccountId,
                   self, db, fallback, calls>>

\* The module has been loaded and MemoryAdapter() has not been called yet.
InitInstances ==
    /\ users = <<>>
    /\ accounts = <<>>
    /\ sessions = <<>>
    /\ verificationTokens = <<>>
    /\ nextUserId = 0
    /\ nextAccountId = 0
    /\ instances = 0
    /\ self = 0
    /\ op = Call("none", "init", Null)
    /\ rv = Null
    /\ err = "none"
    /\ db = EmptyDb
    /\ fallback = "proxy"
    /\ calls = MaxCalls - MaxInstanceCalls    \* MaxInstanceCalls calls are left

\* Any number of adapter objects, each call made through any one of them.
NextInstances ==
    \/ MemoryAdapter_new
    \/ \E data \in UserData : MemoryAdapter_createUser(data)
    \/ \E id \in UserIds : MemoryAdapter_getUser(id)
    \/ \E email \in Emails : MemoryAdapter_getUserByEmail(email)
    \/ \E pa \in ProviderPairs : MemoryAdapter_getUserByAccount(pa)
    \/ \E user \in UserPatches : MemoryAdapter_updateUser(user)
    \/ \E id \in UserIds : MemoryAdapter_deleteUser(id)
    \/ \E data \in SessionData : MemoryAdapter_createSession(data)
    \/ \E data \in SessionPatches : MemoryAdapter_updateSession(data)
    \/ \E t \in SessionTokens : MemoryAdapter_deleteSession(t)
    \/ \E data \in AccountData : MemoryAdapter_linkAccount(data)
    \/ \E pa \in ProviderPairs : MemoryAdapter_unlinkAccount(pa)
    \/ \E t \in SessionTokens : MemoryAdapter_getSessionAndUser(t)
    \/ \E data \in TokenData : MemoryAdapter_createVerificationToken(data)
    \/ \E p \in TokenPairs : MemoryAdapter_useVerificationToken(p)

SpecInstances == InitInstances /\ [][NextInstances]_vars

\* the SQLite adapter (auth.config.ts: adapter: SQLiteAdapter('demo.db'))
NextSQLite ==
    \/ \E user \in SqlUserData : SQLiteAdapter_createUser(user)
    \/ \E id \in UserIds \cup MirroredUserIds : SQLiteAdapter_getUser(id)
    \/ \E email \in Emails : SQLiteAdapter_getUserByEmail(email)
    \/ \E pa \in ProviderPairs : SQLiteAdapter_getUserByAccount(pa)
    \/ \E user \in SqlUserPatches : SQLiteAdapter_updateUser(user)
    \/ \E id \in UserIds, done \in 1..3 : SQLiteAdapter_deleteUser(id, done)
    \/ \E session \in SqlSessionData : SQLiteAdapter_createSession(session)
    \/ \E session \in SqlSessionPatches : SQLiteAdapter_updateSession(session)
    \/ \E t \in SessionTokens : SQLiteAdapter_deleteSession(t)
    \/ \E account \in SqlAccountData : SQLiteAdapter_linkAccount(account)
    \/ \E pa \in ProviderPairs : SQLiteAdapter_unlinkAccount(pa)
    \/ \E t \in SessionTokens \cup {""} : SQLiteAdapter_getSessionAndUser(t)
    \/ \E token \in SqlTokenData : SQLiteAdapter_createVerificationToken(token)
    \/ \E p \in TokenPairs : SQLiteAdapter_useVerificationToken(p)

SpecSQLite == Init /\ [][NextSQLite]_vars

\* the SQLite adapter with line 9 of sqlite-adapter.ts, const memDB = MemoryAdapter(),
\* in place of the fake proxy. getId() draws ids at random: its ids are taken
\* above every user_id the database can hand out, so the two never coincide.
InitFallback ==
    /\ users = <<>>
    /\ accounts = <<>>
    /\ sessions = <<>>
    /\ verificationTokens = <<>>
    /\ nextUserId = MaxSqlCalls
    /\ nextAccountId = 0
    /\ instances = 1
    /\ self = 1
    /\ op = Call("none", "init", Null)
    /\ rv = Null
    /\ err = "none"
    /\ db = EmptyDb
    /\ fallback = "MemoryAdapter"
    /\ calls = 0

SpecFallback == InitFallback /\ [][NextSQLite]_vars

\* ------------------------------------------------------------ claims
\* The last call is in op, its result in rv and err; a step of either adapter is
\* a call, so op' and rv' describe the call a step makes.

Used(p) == op.name = "useVerificationToken" /\ op.arg = p

\* C1: a useVerificationToken call for a pair that directly follows a call that
\* returned a stored token for the same pair (so no createVerificationToken
\* came in between) returns not-found.
C1_SecondUseFindsNothing ==
    [][\A p \in TokenPairs :
        (Used(p) /\ rv # Null /\ Used(p)') => rv' = Null]_vars

\* C2: in the in-memory adapter a useVerificationToken call whose pair matches
\* no stored token removes no stored token.
C2_MissedUseRemovesNothing ==
    [][\A p \in TokenPairs :
        (op'.adapter = "MemoryAdapter" /\ Used(p)' /\ TokensByPair(p) = {})
            => verificationTokens' = verificationTokens]_vars

\* C3: when deleteUser(id) has completed, the store holds no session and no
\* linked account whose userId is id.
C3_DeleteUserCascades ==
    (op.name = "deleteUser" /\ err = "none") =>
        /\ \A s \in Range(sessions) : s.userId # op.arg
        /\ \A a \in Range(accounts) : a.userId # op.arg
        /\ \A r \in Range(db.sessions) : r.user_id # op.arg
        /\ \A r \in Range(db.login_provider_accounts) : r.user_id # op.arg

\* the keys an adapter's store holds for user id: its session tokens and the
\* (provider, providerAccountId) pairs of its linked accounts
SessionTokensOf(id) ==
    {s.sessionToken : s \in {x \in Range(sessions) : x.userId = id}}
        \cup {r.session_token : r \in {x \in Range(db.sessions) : x.user_id = id}}
ProviderPairsOf(id) ==
    {[provider |-> a.provider, providerAccountId |-> a.providerAccountId] :
        a \in {x \in Range(accounts) : x.userId = id}}
    \cup {[provider |-> r.provider, providerAccountId |-> r.provider_user_id] :
        r \in {x \in Range(db.login_provider_accounts) : x.user_id = id}}

\* the (provider, providerAccountId) pairs of all stored linked accounts
StoredProviderPairs ==
    {[provider |-> a.provider, providerAccountId |-> a.providerAccountId] :
        a \in Range(accounts)}
    \cup {[provider |-> r.provider, providerAccountId |-> r.provider_user_id] :
        r \in Range(db.login_provider_accounts)}

\* the lookups of the adapter that served the last call
LookupUser(id) == IF op.adapter = "SQLiteAdapter" THEN SqlGetUser(id) ELSE MemGetUser(id)
LookupUserByEmail(email) ==
    IF op.adapter = "SQLiteAdapter" THEN SqlGetUserByEmail(email) ELSE MemGetUserByEmail(email)
LookupUserByAccount(pa) ==
    IF op.adapter = "SQLiteAdapter" THEN SqlGetUserByAccount(pa) ELSE MemGetUserByAccount(pa)
LookupSessionAndUser(t) ==
    IF op.adapter = "SQLiteAdapter" THEN SqlGetSessionAndUser(t) ELSE MemGetSessionAndUser(t)

\* C4: in the state deleteUser(id) leaves for a stored user (the first of the
\* later states, before any user is created or account linked),
\* getSessionAndUser finds nothing for the session tokens that were the user's
\* and getUserByAccount finds nothing for the provider accounts that were linked
\* to the user. Keys that another user's records carry too are left aside.
C4_DeletedUserUnreachable ==
    [][\A id \in UserIds :
        (op'.name = "deleteUser" /\ op'.arg = id /\ err' = "none"
            /\ (UsersById(id) # {} \/ RowsUserId(id) # {}))
        => /\ \A t \in SessionTokensOf(id) :
                (\A other \in UserIds \ {id} : t \notin SessionTokensOf(other))
                    => LookupSessionAndUser(t)' = Null
           /\ \A pa \in ProviderPairsOf(id) :
                (\A other \in UserIds \ {id} : pa \notin ProviderPairsOf(other))
                    => LookupUserByAccount(pa)' = Null]_vars

\* C5: in the state createUser leaves, having returned user u, getUser(u.id)
\* and getUserByEmail(u.email) return a record with u's id, name, email,
\* emailVerified and image.
C5_CreatedUserFound ==
    (op.name = "createUser" /\ rv # Null) =>
        /\ LookupUser(rv[1].id) = rv
        /\ LookupUserByEmail(rv[1].email) = rv

\* C6: in the state linkAccount leaves, having linked a provider account whose
\* (provider, providerAccountId) pair no stored account had to a stored user,
\* getUserByAccount with that pair returns that user.
C6_LinkedAccountResolvesToOwner ==
    [][\A pa \in ProviderPairs :
        (/\ op'.name = "linkAccount" /\ err' = "none"
         /\ op'.arg.provider = pa.provider
         /\ op'.arg.providerAccountId = pa.providerAccountId
         /\ pa \notin StoredProviderPairs
         /\ LookupUser(op.arg.userId)' # Null)
        => LookupUserByAccount(pa)' = LookupUser(op.arg.userId)']_vars

\* the instant an expiry denotes, in whole seconds
SecondsOf(e) == IF e.kind = "date" THEN e.v \div 1000 ELSE e.v

\* C7: updateSession({sessionToken: t, expires: e}) on a stored session with
\* token t leaves the store with that session's expiry equal to e, its token and
\* userId as they were and every other session as it was, and getSessionAndUser(t)
\* then returns the session with expiry e.
C7_UpdateSessionPersistsExpiry ==
    [][\A t \in SessionTokens :
        (op'.name = "updateSession" /\ op'.arg.sessionToken = t)
        => /\ SessionsByToken(t) # {} =>
                LET i == FindIndex(sessions, SessionsByToken(t))
                IN  /\ sessions' = [sessions EXCEPT ![i].expires = op'.arg.expires]
                    /\ MemGetSessionAndUser(t)' # Null =>
                            MemGetSessionAndUser(t)'[1].session.expires = op'.arg.expires
           /\ RowsSessionToken(t) # {} =>
                LET i == FindIndex(db.sessions, RowsSessionToken(t))
                IN  /\ db'.sessions =
                            [db.sessions EXCEPT ![i].expires_at = NumV(SecondsOf(op'.arg.expires))]
                    /\ SqlGetSessionAndUser(t)' # Null =>
                            SqlGetSessionAndUser(t)'[1].session.expires =
                                NumV(SecondsOf(op'.arg.expires))]_vars

\* the key of a delete call matches no record of the in-memory store
NoSuchRecord(call) ==
    \/ call.name = "deleteUser" /\ UsersById(call.arg) = {}
    \/ call.name = "deleteSession" /\ SessionsByToken(call.arg) = {}
    \/ call.name = "unlinkAccount" /\ call.arg \notin StoredProviderPairs

\* C8: in the in-memory adapter deleteUser, deleteSession and unlinkAccount
\* called with a key that matches no stored record return not-found and leave
\* users, accounts, sessions and verification tokens as they were.
C8_MissedDeleteIsNoOp ==
    [][(op'.adapter = "MemoryAdapter" /\ NoSuchRecord(op'))
        => /\ rv' = Null
           /\ UNCHANGED <<users, accounts, sessions, verificationTokens>>]_vars

\* a createSession input the adapter is to refuse: expires neither a Date nor
\* a number, or no sessionToken, or no userId
InvalidSession(session) ==
    \/ session.expires.kind \notin {"date", "number"}
    \/ session.sessionToken = ""
    \/ session.userId = 0

\* C9: in the SQLite adapter createSession with a missing or invalid expires, a
\* missing sessionToken or a missing userId throws an Error of the adapter and
\* writes nothing: the database and the fallback store are as they were.
C9_InvalidSessionRejected ==
    [][(op'.adapter = "SQLiteAdapter" /\ op'.name = "createSession" /\ InvalidSession(op'.arg))
        => /\ err' = "Error" /\ rv' = Null
           /\ db' = db
           /\ UNCHANGED <<users, accounts, sessions, verificationTokens>>]_vars

\* a createSession call without expires was refused while a session was stored
C9_Witness ==
    /\ op.adapter = "SQLiteAdapter" /\ op.name = "createSession"
    /\ op.arg.expires.kind = "undefined"
    /\ err = "Error"
    /\ db.sessions # <<>>

\* C10: in the SQLite adapter createVerificationToken with a missing expires,
\* identifier or token throws an Error of the adapter and persists no row.
C10_InvalidTokenRejected ==
    [][(/\ op'.adapter = "SQLiteAdapter" /\ op'.name = "createVerificationToken"
        /\ \/ op'.arg.expires.kind = "undefined"
           \/ op'.arg.identifier = ""
           \/ op'.arg.token = "")
        => err' = "Error" /\ db' = db]_vars

\* the stored accounts of the in-memory adapter with both the provider and the
\* providerAccountId of pa
AccountsByPair(pa) ==
    {a \in Range(accounts) :
        a.provider = pa.provider /\ a.providerAccountId = pa.providerAccountId}

\* the key of a lookup call matches no record of the store of its adapter
NoSuchKey(call) ==
    IF call.adapter = "SQLiteAdapter"
    THEN \/ call.name = "getUser" /\ RowsUserId(call.arg) = {}
         \/ call.name = "getUserByEmail" /\ RowsEmail(call.arg) = {}
         \/ call.name = "getUserByAccount" /\ RowsAccount(call.arg) = {}
         \/ call.name = "getSessionAndUser" /\ RowsSessionToken(call.arg) = {}
    ELSE \/ call.name = "getUser" /\ UsersById(call.arg) = {}
         \/ call.name = "getUserByEmail" /\ UsersByEmail(call.arg) = {}
         \/ call.name = "getUserByAccount" /\ AccountsByPair(call.arg) = {}
         \/ call.name = "getSessionAndUser" /\ SessionsByToken(call.arg) = {}

\* C11: getUser, getUserByEmail, getUserByAccount and getSessionAndUser called
\* with a key that matches no stored record return null, throw nothing and
\* leave every collection and every table as it was.
C11_MissedLookupReturnsNull ==
    [][NoSuchKey(op')
        => /\ rv' = Null /\ err' = "none"
           /\ db' = db
           /\ UNCHANGED <<users, accounts, sessions, verificationTokens>>]_vars

\* C12: no two stored users of the in-memory adapter have the same email.
C12_EmailUniqueAmongUsers ==
    \A i, j \in 1..Len(users) : i # j => users[i].email # users[j].email

\* C13: the userId of every stored session and of every stored linked account
\* is the id of exactly one stored user.
C13_SessionsAndAccountsReferToOneUser ==
    /\ \A s \in Range(sessions) :
            Cardinality({i \in 1..Len(users) : users[i].id = s.userId}) = 1
    /\ \A a \in Range(accounts) :
            Cardinality({i \in 1..Len(users) : users[i].id = a.userId}) = 1
    /\ \A r \in Range(db.sessions) :
            Cardinality({i \in 1..Len(db.users) : db.users[i].user_id = r.user_id}) = 1
    /\ \A r \in Range(db.login_provider_accounts) :
            Cardinality({i \in 1..Len(db.users) : db.users[i].user_id = r.user_id}) = 1

\* the relational read of a lookup call of the SQLite adapter finds no row
SqlReadFindsNothing(call) ==
    /\ call.adapter = "SQLiteAdapter"
    /\ \/ call.name = "getUser" /\ SqlGetUser(call.arg) = Null
       \/ call.name = "getUserByEmail" /\ SqlGetUserByEmail(call.arg) = Null
       \/ call.name = "getUserByAccount" /\ SqlGetUserByAccount(call.arg) = Null
       \/ call.name = "getSessionAndUser" /\ SqlGetSessionAndUser(call.arg) = Null

HasUser(us, u) ==
    \E m \in Range(us) :
        /\ m.name = u.name /\ m.email = u.email
        /\ m.emailVerified = u.emailVerified /\ m.image = u.image

\* C15: when a write of the SQLite adapter has completed, the fallback store
\* holds the record the relational store holds (createUser, updateUser,
\* createSession, updateSession, linkAccount, createVerificationToken) and holds
\* no record with the key the relational store has removed (deleteUser,
\* deleteSession, unlinkAccount, useVerificationToken). Users are matched by
\* their fields other than the id, sessions by token, accounts by
\* (provider, providerAccountId), tokens by (identifier, token).
C15_WritesMirrored ==
    [][(op'.adapter = "SQLiteAdapter" /\ err' = "none") =>
        CASE op'.name = "createUser" -> HasUser(users', rv'[1])
          [] op'.name = "updateUser" -> RowsUserId(op'.arg.id) # {} => HasUser(users', rv'[1])
          [] op'.name = "deleteUser" ->
                \A r \in RowsUserId(op'.arg) : \A m \in Range(users') : m.email # r.email
          [] op'.name = "createSession" ->
                \E m \in Range(sessions') :
                    m.sessionToken = op'.arg.sessionToken /\ m.userId = op'.arg.userId
          [] op'.name = "updateSession" ->
                rv' # Null =>
                    \E m \in Range(sessions') :
                        m.sessionToken = op'.arg.sessionToken /\ m.expires = op'.arg.expires
          [] op'.name = "deleteSession" ->
                \A m \in Range(sessions') : m.sessionToken # op'.arg
          [] op'.name = "linkAccount" ->
                \E a \in Range(accounts') :
                    /\ a.provider = op'.arg.provider
                    /\ a.providerAccountId = op'.arg.providerAccountId
                    /\ a.userId = op'.arg.userId
          [] op'.name = "unlinkAccount" ->
                \A a \in Range(accounts') :
                    ~(a.provider = op'.arg.provider
                        /\ a.providerAccountId = op'.arg.providerAccountId)
          [] op'.name = "createVerificationToken" ->
                \E t \in Range(verificationTokens') :
                    t.identifier = op'.arg.identifier /\ t.token = op'.arg.token
          [] op'.name = "useVerificationToken" ->
                \A t \in Range(verificationTokens') :
                    ~(t.identifier = op'.arg.identifier /\ t.token = op'.arg.token)
          [] OTHER -> TRUE]_vars

C17_ExpiryRoundTrips ==
    [][(/\ op'.adapter = "SQLiteAdapter"
        /\ op'.name \in {"createSession", "updateSession"}
        /\ err' = "none" /\ rv' # Null)
        => rv'[1].expires = DateV(SecondsOf(op'.arg.expires) * 1000)]_vars

\* C18: a deleteUser(id) call of the SQLite adapter that a storage failure
\* stops after its first or second DELETE leaves the database with the rows of
\* user id gone from users, the sessions table as it was, the
\* login_provider_accounts table either as it was or without the rows of user id,
\* and everything else as it was.
C18_DeleteUserAppliesInOrder ==
    [][(op'.adapter = "SQLiteAdapter" /\ op'.name = "deleteUser" /\ err' # "none")
        => /\ db'.users = Without(db.users, RowsUserId(op'.arg))
           /\ db'.sessions = db.sessions
           /\ \/ db'.login_provider_accounts = db.login_provider_accounts
              \/ db'.login_provider_accounts =
                    Without(db.login_provider_accounts,
                            {r \in Range(db.login_provider_accounts) : r.user_id = op'.arg})
           /\ db'.verification_tokens = db.verification_tokens]_vars

\* a deleteUser call has failed midway: the user, created before, has no row in
\* users, and a session and a linked account of that user are still stored
C18_Witness ==
    /\ op.adapter = "SQLiteAdapter" /\ op.name = "deleteUser" /\ err = "SqliteError"
    /\ op.arg \in SqlIssuedUserIds
    /\ RowsUserId(op.arg) = {}
    /\ \E r \in Range(db.sessions) : r.user_id = op.arg
    /\ \E r \in Range(db.login_provider_accounts) : r.user_id = op.arg

\* record after is record before with the fields of patch taking the patch's
\* values and every other field keeping its own
MergedFrom(after, before, patch) ==
    /\ DOMAIN after = DOMAIN before
    /\ \A f \in DOMAIN before :
            after[f] = IF f \in DOMAIN patch THEN patch[f] ELSE before[f]

\* C19: updateUser(user) on a stored user with id user.id, with an email (if
\* any) that no other stored user has, completes and merges in place: the stored
\* user takes the input's value in every field the input has and keeps every
\* other field, its id and its place, no user is added or removed, no other user
\* changes, and the merged user is returned; the same in the in-memory and in
\* the SQLite adapter.
C19_UpdateUserMerges ==
    [][(op'.name = "updateUser") =>
        LET user == op'.arg
            i == FindIndex(users, UsersById(user.id))
            k == FindIndex(db.users, RowsUserId(user.id))
        IN  /\ (/\ op'.adapter = "MemoryAdapter" /\ i # -1
                /\ ("email" \in DOMAIN user =>
                        \A u \in Range(users) : u.id = user.id \/ u.email # user.email))
                => /\ err' = "none"
                   /\ Len(users') = Len(users)
                   /\ MergedFrom(users'[i], users[i], user)
                   /\ users'[i].id = users[i].id
                   /\ \A j \in 1..Len(users) : j # i => users'[j] = users[j]
                   /\ rv' = Some(users'[i])
            /\ (/\ op'.adapter = "SQLiteAdapter" /\ k # -1
                /\ ("email" \in DOMAIN user => UserKeyFreeFor(user.id, user.email)))
                => /\ err' = "none"
                   /\ Len(db'.users) = Len(db.users)
                   /\ MergedFrom(AsUser(db'.users[k]), AsUser(db.users[k]), user)
                   /\ db'.users[k].user_id = db.users[k].user_id
                   /\ \A j \in 1..Len(db.users) : j # k => db'.users[j] = db.users[j]
                   /\ rv' = Some(AsUser(db'.users[k]))]_vars

\* the accounts of arr that do not have both the provider and the
\* providerAccountId of pa, in order
OtherAccounts(arr, pa) ==
    SelectSeq(arr, LAMBDA a :
        ~(a.provider = pa.provider /\ a.providerAccountId = pa.providerAccountId))

\* C20: in the in-memory adapter, with an account of some provider stored under
\* providerAccountId a, unlinkAccount({provider: p, providerAccountId: a})
\* removes the account stored under (p, a) if there is one and no account stored
\* under another pair, and getUserByAccount({provider: p, providerAccountId: a})
\* returns the user of the account stored under (p, a), or null if there is none.
C20_AccountsKeyedByProviderPair ==
    [][\A pa \in ProviderPairs :
        (/\ op'.adapter = "MemoryAdapter"
         /\ op'.name \in {"unlinkAccount", "getUserByAccount"}
         /\ op'.arg = pa
         /\ AccountsByKey(pa) # {})
        => /\ op'.name = "unlinkAccount" =>
                /\ OtherAccounts(accounts', pa) = OtherAccounts(accounts, pa)
                /\ AccountsByPair(pa) # {} => Len(accounts') = Len(accounts) - 1
           /\ op'.name = "getUserByAccount" =>
                rv' = UserOf(Find(accounts, AccountsByPair(pa)))]_vars

\* C21: in the in-memory adapter, updateUser with an id no stored user has and
\* updateSession with a token no stored session has return the input record
\* and leave users and sessions as they were; a getUser(id) or
\* getSessionAndUser(token) made right after still returns null.
C21_MissedUpdateAddsNothing ==
    [][/\ (/\ op'.adapter = "MemoryAdapter"
           /\ op'.name = "updateUser"
           /\ UsersById(op'.arg.id) = {})
          => /\ rv' = Some(op'.arg)
             /\ users' = users
             /\ sessions' = sessions
             /\ \A u \in Range(users') : u.id # op'.arg.id
       /\ (/\ op'.adapter = "MemoryAdapter"
           /\ op'.name = "updateSession"
           /\ SessionsByToken(op'.arg.sessionToken) = {})
          => /\ rv' = Some(op'.arg)
             /\ users' = users
             /\ sessions' = sessions
             /\ \A s \in Range(sessions') : s.sessionToken # op'.arg.sessionToken
       /\ (/\ op.adapter = "MemoryAdapter"
           /\ op.name = "updateUser"
           /\ rv = Some(op.arg)
           /\ op'.name = "getUser"
           /\ op'.arg = op.arg.id)
          => rv' = Null
       /\ (/\ op.adapter = "MemoryAdapter"
           /\ op.name = "updateSession"
           /\ rv = Some(op.arg)
           /\ op'.name = "getSessionAndUser"
           /\ op'.arg = op.arg.sessionToken)
          => rv' = Null
      ]_vars

\* An updateUser that matched no stored user and returned its input, made
\* while another user and a session are stored.
C21_Witness ==
    /\ op.adapter = "MemoryAdapter"
    /\ op.name = "updateUser"
    /\ UsersById(op.arg.id) = {}
    /\ rv = Some(op.arg)
    /\ users # <<>>
    /\ sessions # <<>>

\* C22: in every state the in-memory adapter reaches, no two stored sessions
\* have the same sessionToken and no two stored verification tokens have the
\* same (identifier, token) pair.
C22_SessionsAndTokensUniqueByKey ==
    /\ \A i, j \in DOMAIN sessions :
          i # j => sessions[i].sessionToken # sessions[j].sessionToken
    /\ \A i, j \in DOMAIN verificationTokens :
          i # j => \/ verificationTokens[i].identifier # verificationTokens[j].identifier
                   \/ verificationTokens[i].token # verificationTokens[j].token

StoredUser(u) == u # Null /\ \E x \in Range(users) : x = u[1]

\* C23: every adapter object MemoryAdapter() returns works on the same four
\* collections: calling MemoryAdapter() again leaves users, accounts, sessions
\* and verification tokens as they are, a user created or updated through one
\* object is returned by getUser through another, a user deleted through one
\* is not found through another, and what a read returns is the lookup in the
\* one store, whichever object it is made through.
C23_InstancesShareCollections ==
    [][/\ (op'.adapter = "MemoryAdapter" /\ op'.name = "MemoryAdapter")
          => /\ users' = users
             /\ accounts' = accounts
             /\ sessions' = sessions
             /\ verificationTokens' = verificationTokens
       /\ (/\ op.adapter = "MemoryAdapter"
           /\ op.name \in {"createUser", "updateUser"}
           /\ StoredUser(rv)
           /\ self' # self
           /\ op'.name = "getUser"
           /\ op'.arg = rv[1].id)
          => rv' = rv
       /\ (/\ op.adapter = "MemoryAdapter"
           /\ op.name = "deleteUser"
           /\ self' # self
           /\ op'.name = "getUser"
           /\ op'.arg = op.arg)
          => rv' = Null
       /\ (op'.adapter = "MemoryAdapter" /\ op'.name = "getUser")
          => rv' = MemGetUser(op'.arg)
       /\ (op'.adapter = "MemoryAdapter" /\ op'.name = "getUserByEmail")
          => rv' = MemGetUserByEmail(op'.arg)
       /\ (op'.adapter = "MemoryAdapter" /\ op'.name = "getUserByAccount")
          => rv' = MemGetUserByAccount(op'.arg)
       /\ (op'.adapter = "MemoryAdapter" /\ op'.name = "getSessionAndUser")
          => rv' = MemGetSessionAndUser(op'.arg)
      ]_vars

\* A second adapter object has just been created while the user and the
\* session stored through the first are still there.
C23_Witness ==
    /\ op = Call("MemoryAdapter", "MemoryAdapter", Null)
    /\ instances = 2
    /\ users # <<>>
    /\ sessions # <<>>

====
